---- MODULE Spec2Model ----
\* Multi-tenant todo backend (backend/app): registration, login, bearer-token
\* verification and ownership-scoped task CRUD over the users and tasks tables.
\* Time is counted in hours.  Optional (nullable) values are sequences of
\* length at most one: <<>> is None / null / omitted, <<v>> is the value v.
EXTENDS Integers, Sequences, FiniteSets, TLC

VARIABLES users, tasks, issued, now, nextUserId, nextTaskId, req, resp, pc, local,
          not_authenticated

vars == <<users, tasks, issued, now, nextUserId, nextTaskId, req, resp, pc, local, not_authenticated>>

\* ---------------------------------------------------------------- bounds
MaxUsers == 2
MaxTasks == 2
MaxTokens == 2
MaxTime == 2
MaxExpiryTime == 36
TickHours == 12
MaxListTasks == 3

\* ------------------------------------------------------ program constants
ACCESS_TOKEN_EXPIRE_HOURS == 24
TitleMinLength == 1
TitleMaxLength == 200
PasswordMinLength == 8
PasswordMaxLength == 100
LimitMin == 1
LimitMax == 100
OffsetMin == 0

HTTP_200_OK == 200
HTTP_201_CREATED == 201
HTTP_204_NO_CONTENT == 204
HTTP_401_UNAUTHORIZED == 401
HTTP_403_FORBIDDEN == 403
HTTP_404_NOT_FOUND == 404
HTTP_409_CONFLICT == 409
HTTP_422_UNPROCESSABLE == 422
HTTP_500_INTERNAL == 500

None == <<>>
Some(v) == <<v>>

\* ------------------------------------------------------------ input sets
\* A string is carried with its length, which is all the validators read.
Str(text, len) == [text |-> text, len |-> len]

Emails == {"a@x.com", "b@x.com"}
MalformedEmails == {"not-an-email"}
\* EmailStr accepts exactly the well-formed addresses.
EmailStr(e) == e \in Emails

Passwords == {Str("password1", 9), Str("password2", 9)}
ShortPasswords == {Str("short", 5)}

Titles == {Str("Buy milk", 8), Str("Call mom", 8)}
InvalidTitles == {Str("", 0), Str("long", 201)}
Descriptions == {"", "Milk, eggs"}

UserIds == 1 .. MaxUsers
TaskIds == 1 .. MaxTasks

NoBody == [kind |-> "none"]
Response(status, detail, body) == [status |-> status, detail |-> detail, body |-> body]
NoRequest == [op |-> "none"]
NoResponse == Response(0, "", NoBody)

\* ------------------------------------------------------- password hasher
\* bcrypt: the stored hash is a tagged digest, never the plaintext itself.
\* mutant: the password is stored as it was sent
hash_password_Plaintext(password) == password

hash_password(password) == [scheme |-> "$2b$", digest |-> password.text]
verify_password(plain_password, hashed_password) ==
    hashed_password.scheme = "$2b$" /\ hashed_password.digest = plain_password.text

\* --------------------------------------------------------- token service
\* str(uuid) and UUID(str): a subject claim is a tagged value; only a string
\* in UUID format parses back to an identifier.
UuidStr(user_id) == [kind |-> "uuid", val |-> user_id]
IsUuidStr(s) == s.kind = "uuid"
ParseUUID(s) == s.val

NoSub == [kind |-> "missing", val |-> 0]
TextSub == [kind |-> "text", val |-> 0]
IntSub == [kind |-> "int", val |-> 7]

\* A presented bearer credential: fmt says whether it splits into three
\* decodable segments, sig whether the HMAC matches SECRET_KEY, payload
\* whether the claims segment is a JSON object.
Token(fmt, sig, payload, sub, iat, exp) ==
    [fmt |-> fmt, sig |-> sig, payload |-> payload, sub |-> sub, iat |-> iat, exp |-> exp]

create_access_token(user_id, t) ==
    Token("jwt", "ok", "json", UuidStr(user_id), t, t + ACCESS_TOKEN_EXPIRE_HOURS)

\* jose error messages, lower-cased, as word sequences
MsgNotEnoughSegments == <<"not", "enough", "segments">>
MsgSignatureFailed == <<"signature", "verification", "failed">>
MsgInvalidPayload == <<"invalid", "payload", "string">>
MsgExpired == <<"signature", "has", "expired">>
MsgSubjectNotString == <<"subject", "must", "be", "a", "string">>

Contains(msg, word) == \E i \in DOMAIN msg : msg[i] = word

\* mutant: the exp claim is not verified
jwt_decode_NoExpiry(token, t) ==
    IF token.fmt /= "jwt" THEN [ok |-> FALSE, msg |-> MsgNotEnoughSegments]
    ELSE IF token.sig /= "ok" THEN [ok |-> FALSE, msg |-> MsgSignatureFailed]
    ELSE IF token.payload /= "json" THEN [ok |-> FALSE, msg |-> MsgInvalidPayload]
    ELSE IF token.sub.kind = "int" THEN [ok |-> FALSE, msg |-> MsgSubjectNotString]
    ELSE [ok |-> TRUE, msg |-> <<>>]

\* jwt.decode(token, SECRET_KEY, algorithms=[ALGORITHM]): segments, then
\* signature, then the claims (exp before sub).
jwt_decode(token, t) ==
    IF token.fmt /= "jwt" THEN [ok |-> FALSE, msg |-> MsgNotEnoughSegments]
    ELSE IF token.sig /= "ok" THEN [ok |-> FALSE, msg |-> MsgSignatureFailed]
    ELSE IF token.payload /= "json" THEN [ok |-> FALSE, msg |-> MsgInvalidPayload]
    ELSE IF token.exp < t THEN [ok |-> FALSE, msg |-> MsgExpired]
    ELSE IF token.sub.kind = "int" THEN [ok |-> FALSE, msg |-> MsgSubjectNotString]
    ELSE [ok |-> TRUE, msg |-> <<>>]

DetailInvalidToken == "Invalid token"
DetailTokenExpired == "Token expired"
DetailInvalidSignature == "Invalid token signature"
DetailMalformedUserId == "Invalid token format (malformed user ID)"

Unauthorized(detail) == [ok |-> FALSE, user_id |-> 0,
                         error |-> Response(HTTP_401_UNAUTHORIZED, detail, NoBody)]

\* mutant: the two substring tests in the other order
ClassifyJWTError_SignatureFirst(msg) ==
    IF Contains(msg, "signature") THEN Unauthorized(DetailInvalidSignature)
    ELSE IF Contains(msg, "expired") THEN Unauthorized(DetailTokenExpired)
    ELSE Unauthorized(DetailInvalidToken)

\* Classification of a JWTError by the text of its message.
ClassifyJWTError(msg) ==
    IF Contains(msg, "expired") THEN Unauthorized(DetailTokenExpired)
    ELSE IF Contains(msg, "signature") THEN Unauthorized(DetailInvalidSignature)
    ELSE Unauthorized(DetailInvalidToken)

\* Depends(security) runs first: without an Authorization header of the
\* Bearer scheme, HTTPBearer itself raises "Not authenticated" with the status
\* of the installed FastAPI (not_authenticated), and the body below is not
\* reached.
get_current_user(token, t) ==
    LET decoded == jwt_decode(token, t) IN
    IF token.fmt = "absent"
    THEN [ok |-> FALSE, user_id |-> 0,
          error |-> Response(not_authenticated, "Not authenticated", NoBody)]
    ELSE IF ~decoded.ok THEN ClassifyJWTError(decoded.msg)
    ELSE IF token.sub.kind = "missing" THEN Unauthorized(DetailInvalidToken)
    ELSE IF ~IsUuidStr(token.sub) THEN Unauthorized(DetailMalformedUserId)
    ELSE [ok |-> TRUE, user_id |-> ParseUUID(token.sub), error |-> NoResponse]

\* -------------------------------------------------------------- the store
Init ==
    /\ users = <<>>
    /\ tasks = <<>>
    /\ issued = {}
    /\ now = 0
    /\ nextUserId = 1
    /\ nextTaskId = 1
    /\ req = NoRequest
    /\ resp = NoResponse
    /\ pc = [p \in {1, 2} |-> "idle"]
    /\ local = [p \in {1, 2} |-> NoRequest]
    /\ not_authenticated = HTTP_401_UNAUTHORIZED

\* The same start on any FastAPI release: HTTPBearer answers a request without
\* credentials 403 up to 0.121 and 401 from 0.122 on; the repository pins none.
NotAuthenticatedStatuses == {HTTP_401_UNAUTHORIZED, HTTP_403_FORBIDDEN}

InitAnyRelease ==
    /\ users = <<>>
    /\ tasks = <<>>
    /\ issued = {}
    /\ now = 0
    /\ nextUserId = 1
    /\ nextTaskId = 1
    /\ req = NoRequest
    /\ resp = NoResponse
    /\ pc = [p \in {1, 2} |-> "idle"]
    /\ local = [p \in {1, 2} |-> NoRequest]
    /\ not_authenticated \in NotAuthenticatedStatuses

\* select(User).where(User.email == email): the ids of the matching rows
find_user_by_email(email) == {id \in DOMAIN users : users[id].email = email}

UserResponse(id) ==
    [kind |-> "user", id |-> id, email |-> users[id].email, created_at |-> users[id].created_at]

TaskResponse(id, task) ==
    [kind |-> "task", id |-> id, title |-> task.title, description |-> task.description,
     completed |-> task.completed, user_id |-> task.user_id,
     created_at |-> task.created_at, updated_at |-> task.updated_at]

\* ------------------------------------------------------------- auth flow
\* mutant: the password field carries no min_length
RegisterRequest_NoMinLength(email, password) ==
    /\ EmailStr(email)
    /\ password.len <= PasswordMaxLength

RegisterRequest(email, password) ==
    /\ EmailStr(email)
    /\ password.len >= PasswordMinLength
    /\ password.len <= PasswordMaxLength

\* mutant: an existing account is overwritten with the new password
register_commit_Upsert(existing, email, password) ==
    IF existing /\ find_user_by_email(email) /= {}
    THEN LET id == CHOOSE i \in find_user_by_email(email) : TRUE IN
         /\ users' = [users EXCEPT ![id].password_hash = hash_password(password)]
         /\ resp' = Response(HTTP_409_CONFLICT, "Email already registered", NoBody)
         /\ UNCHANGED nextUserId
    ELSE /\ users' = users @@ (nextUserId :>
                [email |-> email, password_hash |-> hash_password(password), created_at |-> now])
         /\ nextUserId' = nextUserId + 1
         /\ resp' = Response(HTTP_201_CREATED, "",
                [kind |-> "user", id |-> nextUserId, email |-> email, created_at |-> now])

\* The body of register after its existence read: existing is what the read
\* saw; the INSERT is subject to the unique index on users.email, and an
\* IntegrityError raised by commit is not handled (500).
register_commit(existing, email, password) ==
    IF existing
    THEN /\ resp' = Response(HTTP_409_CONFLICT, "Email already registered", NoBody)
         /\ UNCHANGED <<users, nextUserId>>
    ELSE IF find_user_by_email(email) /= {}
    THEN /\ resp' = Response(HTTP_500_INTERNAL, "Internal Server Error", NoBody)
         /\ UNCHANGED <<users, nextUserId>>
    ELSE /\ users' = users @@ (nextUserId :>
                [email |-> email, password_hash |-> hash_password(password), created_at |-> now])
         /\ nextUserId' = nextUserId + 1
         /\ resp' = Response(HTTP_201_CREATED, "",
                [kind |-> "user", id |-> nextUserId, email |-> email, created_at |-> now])

register(email, password) ==
    /\ req' = [op |-> "register", email |-> email, password |-> password]
    /\ IF ~RegisterRequest(email, password)
       THEN /\ resp' = Response(HTTP_422_UNPROCESSABLE, "validation error", NoBody)
            /\ UNCHANGED <<users, nextUserId>>
       ELSE register_commit(find_user_by_email(email) /= {}, email, password)
    /\ UNCHANGED <<tasks, issued, now, nextTaskId, pc, local, not_authenticated>>

\* mutant: an unknown email is told apart from a wrong password
login_UserNotFound(email, password) ==
    /\ req' = [op |-> "login", email |-> email, password |-> password]
    /\ IF find_user_by_email(email) = {}
       THEN resp' = Response(HTTP_404_NOT_FOUND, "User not found", NoBody)
       ELSE resp' = Response(HTTP_401_UNAUTHORIZED, "Invalid email or password", NoBody)
    /\ UNCHANGED <<users, tasks, issued, now, nextUserId, nextTaskId, pc, local, not_authenticated>>

login(email, password) ==
    /\ req' = [op |-> "login", email |-> email, password |-> password]
    /\ IF ~EmailStr(email)
       THEN /\ resp' = Response(HTTP_422_UNPROCESSABLE, "validation error", NoBody)
            /\ UNCHANGED issued
       ELSE LET found == find_user_by_email(email) IN
            IF \/ found = {}
               \/ \A id \in found : ~verify_password(password, users[id].password_hash)
            THEN /\ resp' = Response(HTTP_401_UNAUTHORIZED, "Invalid email or password", NoBody)
                 /\ UNCHANGED issued
            ELSE LET id == CHOOSE i \in found : TRUE
                     access_token == create_access_token(id, now) IN
                 /\ issued' = issued \cup {access_token}
                 /\ resp' = Response(HTTP_200_OK, "",
                        [kind |-> "auth", access_token |-> access_token,
                         token_type |-> "bearer", user |-> UserResponse(id)])
    /\ UNCHANGED <<users, tasks, now, nextUserId, nextTaskId, pc, local, not_authenticated>>

\* mutant: the route does not depend on get_current_user
logout_Unauthenticated(credentials) ==
    LET auth == get_current_user(credentials, now) IN
    /\ req' = [op |-> "logout", user_id |-> auth.user_id, credentials |-> credentials]
    /\ resp' = Response(HTTP_200_OK, "",
                    [kind |-> "message",
                     message |-> "Logout successful. Please delete the token from client storage."])
    /\ UNCHANGED <<users, tasks, issued, now, nextUserId, nextTaskId, pc, local, not_authenticated>>

logout(credentials) ==
    LET auth == get_current_user(credentials, now) IN
    /\ req' = [op |-> "logout", user_id |-> auth.user_id, credentials |-> credentials]
    /\ resp' = IF ~auth.ok THEN auth.error
               ELSE Response(HTTP_200_OK, "",
                        [kind |-> "message",
                         message |-> "Logout successful. Please delete the token from client storage."])
    /\ UNCHANGED <<users, tasks, issued, now, nextUserId, nextTaskId, pc, local, not_authenticated>>

\* mutant: the profile is answered from the token without the re-fetch
get_me_FromToken(credentials) ==
    LET auth == get_current_user(credentials, now) IN
    /\ req' = [op |-> "get_me", user_id |-> auth.user_id]
    /\ resp' = IF ~auth.ok THEN auth.error
               ELSE Response(HTTP_200_OK, "",
                        [kind |-> "user", id |-> auth.user_id, email |-> "", created_at |-> 0])
    /\ UNCHANGED <<users, tasks, issued, now, nextUserId, nextTaskId, pc, local, not_authenticated>>

get_me(credentials) ==
    LET auth == get_current_user(credentials, now) IN
    /\ req' = [op |-> "get_me", user_id |-> auth.user_id]
    /\ resp' = IF ~auth.ok THEN auth.error
               ELSE IF auth.user_id \notin DOMAIN users
               THEN Response(HTTP_404_NOT_FOUND, "User not found", NoBody)
               ELSE Response(HTTP_200_OK, "", UserResponse(auth.user_id))
    /\ UNCHANGED <<users, tasks, issued, now, nextUserId, nextTaskId, pc, local, not_authenticated>>

\* mutant: the delete empties the tasks table
delete_user_AllTasks(user_id) ==
    /\ user_id \in DOMAIN users
    /\ users' = [id \in DOMAIN users \ {user_id} |-> users[id]]
    /\ tasks' = <<>>
    /\ req' = [op |-> "delete_user", user_id |-> user_id]
    /\ resp' = NoResponse
    /\ UNCHANGED <<issued, now, nextUserId, nextTaskId, pc, local, not_authenticated>>

\* session.delete(user); session.commit(): the relationship User.tasks has
\* cascade "all, delete-orphan", so the unit of work deletes the rows of
\* user.tasks and then the user row.  Tokens already issued stay as they are.
delete_user(user_id) ==
    /\ user_id \in DOMAIN users
    /\ users' = [id \in DOMAIN users \ {user_id} |-> users[id]]
    /\ tasks' = [id \in {i \in DOMAIN tasks : tasks[i].user_id /= user_id} |-> tasks[id]]
    /\ req' = [op |-> "delete_user", user_id |-> user_id]
    /\ resp' = NoResponse
    /\ UNCHANGED <<issued, now, nextUserId, nextTaskId, pc, local, not_authenticated>>

\* The clock advances by d hours.
Tick(d) ==
    /\ now' = now + d
    /\ UNCHANGED <<users, tasks, issued, nextUserId, nextTaskId, req, resp, pc, local, not_authenticated>>

\* ------------------------------------------------------------- task flow
Min(a, b) == IF a <= b THEN a ELSE b

\* mutant: the base query is not scoped to the caller
Matching_AnyOwner(store, user_id, completed) ==
    {id \in DOMAIN store : completed = None \/ store[id].completed = completed[1]}

\* mutant: the filter is tested for truthiness, so completed=false filters nothing
Matching_TruthyFilter(store, user_id, completed) ==
    {id \in DOMAIN store :
        /\ store[id].user_id = user_id
        /\ (completed /= Some(TRUE) \/ store[id].completed = TRUE)}

\* statement.where(Task.user_id == current_user_id)[.where(Task.completed == completed)]
Matching(store, user_id, completed) ==
    {id \in DOMAIN store :
        /\ store[id].user_id = user_id
        /\ (completed = None \/ store[id].completed = completed[1])}

\* mutant: ORDER BY created_at ASC
OrderedByCreatedDesc_Asc(store, ids) ==
    {s \in [1 .. Cardinality(ids) -> ids] :
        /\ \A i, j \in DOMAIN s : i /= j => s[i] /= s[j]
        /\ \A i, j \in DOMAIN s : i < j => store[s[i]].created_at <= store[s[j]].created_at}

\* ORDER BY created_at DESC: every order of the rows the database may return
\* (rows with equal created_at come in any order).
OrderedByCreatedDesc(store, ids) ==
    {s \in [1 .. Cardinality(ids) -> ids] :
        /\ \A i, j \in DOMAIN s : i /= j => s[i] /= s[j]
        /\ \A i, j \in DOMAIN s : i < j => store[s[i]].created_at >= store[s[j]].created_at}

\* mutant: offset is taken as a page number
Page_OffsetAsPageNumber(rows, limit, offset) ==
    SubSeq(rows, offset * limit + 1, Min(Len(rows), offset * limit + limit))

\* .limit(limit).offset(offset)
Page(rows, limit, offset) == SubSeq(rows, offset + 1, Min(Len(rows), offset + limit))

ListQuery(limit, offset) ==
    /\ limit >= LimitMin
    /\ limit <= LimitMax
    /\ offset >= OffsetMin

\* The count query and the page query of list_tasks over one store, and the
\* TaskListResponse built from them: one body per order the database may
\* return the rows in.
TaskListResponse(store, user_id, limit, offset, completed) ==
    LET matching == Matching(store, user_id, completed)
        total == Cardinality(matching) IN
    {[kind |-> "list",
      tasks |-> [i \in DOMAIN Page(rows, limit, offset) |->
                    TaskResponse(Page(rows, limit, offset)[i], store[Page(rows, limit, offset)[i]])],
      total |-> total, limit |-> limit, offset |-> offset] :
        rows \in OrderedByCreatedDesc(store, matching)}

list_tasks(credentials, limit, offset, completed) ==
    LET auth == get_current_user(credentials, now) IN
    /\ req' = [op |-> "list_tasks", user_id |-> auth.user_id,
               limit |-> limit, offset |-> offset, completed |-> completed]
    /\ IF ~auth.ok THEN resp' = auth.error
       ELSE IF ~ListQuery(limit, offset)
       THEN resp' = Response(HTTP_422_UNPROCESSABLE, "validation error", NoBody)
       ELSE \E body \in TaskListResponse(tasks, auth.user_id, limit, offset, completed) :
                resp' = Response(HTTP_200_OK, "", body)
    /\ UNCHANGED <<users, tasks, issued, now, nextUserId, nextTaskId, pc, local, not_authenticated>>

\* The request body of POST /api/tasks as the client sends it; user_id is a
\* field the schema does not declare.
TaskCreateBody(title, description, completed, user_id) ==
    [title |-> title, description |-> description, completed |-> completed, user_id |-> user_id]

\* mutant: the title field carries no max_length
ValidTitle_NoMax(title) == title.len >= TitleMinLength

ValidTitle(title) == title.len >= TitleMinLength /\ title.len <= TitleMaxLength

\* mutant: completed is not read from the body
TaskCreateRequest_IgnoresCompleted(body) ==
    [title |-> body.title, description |-> body.description, completed |-> FALSE]

\* Parsing into TaskCreateRequest: undeclared fields are dropped, completed
\* defaults to False.
TaskCreateRequest(body) ==
    [title |-> body.title, description |-> body.description,
     completed |-> IF body.completed = None THEN FALSE ELSE body.completed[1]]

\* mutant: the owner is read from the request body when it names one
TaskOwner_FromBody(body, current_user_id) ==
    IF body.user_id /= None THEN body.user_id[1] ELSE current_user_id

\* user_id=current_user_id  (set from the JWT token, not the request body)
TaskOwner(body, current_user_id) == current_user_id

\* mutant: tasks.user_id is not checked against users.id
ForeignKeyViolation_NotEnforced(user_id) == FALSE

\* foreign_key="users.id": the INSERT of a task row whose user_id names no
\* users row is refused by the database (IntegrityError at commit, unhandled).
ForeignKeyViolation(user_id) == user_id \notin DOMAIN users

create_task(credentials, body) ==
    LET auth == get_current_user(credentials, now)
        request == TaskCreateRequest(body) IN
    /\ req' = [op |-> "create_task", user_id |-> auth.user_id,
               body |-> body]
    /\ IF ~auth.ok
       THEN resp' = auth.error /\ UNCHANGED <<tasks, nextTaskId>>
       ELSE IF ~ValidTitle(body.title)
       THEN /\ resp' = Response(HTTP_422_UNPROCESSABLE, "validation error", NoBody)
            /\ UNCHANGED <<tasks, nextTaskId>>
       ELSE IF ForeignKeyViolation(TaskOwner(body, auth.user_id))
       THEN /\ resp' = Response(HTTP_500_INTERNAL, "Internal Server Error", NoBody)
            /\ UNCHANGED <<tasks, nextTaskId>>
       ELSE LET task == [title |-> request.title, description |-> request.description,
                         completed |-> request.completed,
                         user_id |-> TaskOwner(body, auth.user_id),
                         created_at |-> now, updated_at |-> now] IN
            /\ tasks' = tasks @@ (nextTaskId :> task)
            /\ nextTaskId' = nextTaskId + 1
            /\ resp' = Response(HTTP_201_CREATED, "", TaskResponse(nextTaskId, task))
    /\ UNCHANGED <<users, issued, now, nextUserId, pc, local, not_authenticated>>

\* mutant: the ownership check is left out
AccessDenied_Skipped(task, current_user_id) == FALSE

\* "Check ownership": task.user_id != current_user_id
AccessDenied(task, current_user_id) == task.user_id /= current_user_id

TaskNotFound == Response(HTTP_404_NOT_FOUND, "Task not found", NoBody)
TaskForbidden == Response(HTTP_403_FORBIDDEN, "Access denied: task belongs to another user", NoBody)

\* mutant: the query is scoped to the caller, so a foreign task looks absent
get_task_OwnerScopedQuery(credentials, task_id) ==
    LET auth == get_current_user(credentials, now) IN
    /\ req' = [op |-> "get_task", user_id |-> auth.user_id, task_id |-> task_id]
    /\ resp' = IF ~auth.ok THEN auth.error
               ELSE IF task_id \notin DOMAIN tasks \/ tasks[task_id].user_id /= auth.user_id
               THEN TaskNotFound
               ELSE Response(HTTP_200_OK, "", TaskResponse(task_id, tasks[task_id]))
    /\ UNCHANGED <<users, tasks, issued, now, nextUserId, nextTaskId, pc, local, not_authenticated>>

\* mutant: the task is returned whoever owns it
GetTaskResponse_AnyOwner(store, current_user_id, task_id) ==
    IF task_id \notin DOMAIN store THEN TaskNotFound
    ELSE Response(HTTP_200_OK, "", TaskResponse(task_id, store[task_id]))

\* What get_task answers an authenticated caller over a given tasks table:
\* the select by id, the 404, the ownership check, the task.
GetTaskResponse(store, current_user_id, task_id) ==
    IF task_id \notin DOMAIN store THEN TaskNotFound
    ELSE IF AccessDenied(store[task_id], current_user_id) THEN TaskForbidden
    ELSE Response(HTTP_200_OK, "", TaskResponse(task_id, store[task_id]))

get_task(credentials, task_id) ==
    LET auth == get_current_user(credentials, now) IN
    /\ req' = [op |-> "get_task", user_id |-> auth.user_id,
               task_id |-> task_id]
    /\ resp' = IF ~auth.ok THEN auth.error
               ELSE GetTaskResponse(tasks, auth.user_id, task_id)
    /\ UNCHANGED <<users, tasks, issued, now, nextUserId, nextTaskId, pc, local, not_authenticated>>

\* The parsed TaskUpdateRequest: a field that was omitted or sent as null is None.
TaskUpdateRequest(title, description, completed) ==
    [title |-> title, description |-> description, completed |-> completed]

\* A field of a JSON body as sent: left out, null, or a value.
Omitted == [sent |-> FALSE, val |-> None]
Null == [sent |-> TRUE, val |-> None]
Value(v) == [sent |-> TRUE, val |-> Some(v)]

\* The body of PUT /api/tasks/{id} as the client sends it; user_id and
\* created_at are fields the schema does not declare.
TaskUpdateBody(title, description, completed, user_id, created_at) ==
    [title |-> title, description |-> description, completed |-> completed,
     user_id |-> user_id, created_at |-> created_at]

\* Parsing into TaskUpdateRequest: undeclared fields are dropped, and a
\* declared field is None both when left out (its default) and when null.
ParseTaskUpdateRequest(body) ==
    TaskUpdateRequest(body.title.val, body.description.val, body.completed.val)

\* mutant: the row is rebuilt, so created_at takes its default again
ApplyUpdate_ResetsCreatedAt(task, request) ==
    [task EXCEPT
        !.title = IF request.title /= None THEN request.title[1] ELSE @,
        !.description = IF request.description /= None THEN request.description ELSE @,
        !.completed = IF request.completed /= None THEN request.completed[1] ELSE @,
        !.created_at = now]

\* mutant: every declared field is assigned, provided or not
ApplyUpdate_AssignsAll(task, request) ==
    [task EXCEPT
        !.title = IF request.title /= None THEN request.title[1] ELSE @,
        !.description = request.description,
        !.completed = IF request.completed /= None THEN request.completed[1] ELSE @]

\* mutant: fields are tested for truthiness, so False and "" are not applied
ApplyUpdate_Truthy(task, request) ==
    [task EXCEPT
        !.title = IF request.title /= None THEN request.title[1] ELSE @,
        !.description = IF request.description /= None /\ request.description /= Some("")
                        THEN request.description ELSE @,
        !.completed = IF request.completed = Some(TRUE) THEN TRUE ELSE @]

\* "Update only provided fields": the row after the assignments.  updated_at
\* is not assigned, and the tables are created without any trigger.
ApplyUpdate(task, request) ==
    [task EXCEPT
        !.title = IF request.title /= None THEN request.title[1] ELSE @,
        !.description = IF request.description /= None THEN request.description ELSE @,
        !.completed = IF request.completed /= None THEN request.completed[1] ELSE @]

update_task(credentials, task_id, request) ==
    LET auth == get_current_user(credentials, now) IN
    /\ req' = [op |-> "update_task", user_id |-> auth.user_id,
               task_id |-> task_id, request |-> request]
    /\ IF ~auth.ok
       THEN resp' = auth.error /\ UNCHANGED tasks
       ELSE IF request.title /= None /\ ~ValidTitle(request.title[1])
       THEN /\ resp' = Response(HTTP_422_UNPROCESSABLE, "validation error", NoBody)
            /\ UNCHANGED tasks
       ELSE IF task_id \notin DOMAIN tasks
       THEN resp' = TaskNotFound /\ UNCHANGED tasks
       ELSE IF AccessDenied(tasks[task_id], auth.user_id)
       THEN resp' = TaskForbidden /\ UNCHANGED tasks
       ELSE LET task == ApplyUpdate(tasks[task_id], request) IN
            /\ tasks' = [tasks EXCEPT ![task_id] = task]
            /\ resp' = Response(HTTP_200_OK, "", TaskResponse(task_id, task))
    /\ UNCHANGED <<users, issued, now, nextUserId, nextTaskId, pc, local, not_authenticated>>

\* mutant: the delete is never committed
delete_task_NotCommitted(credentials, task_id) ==
    LET auth == get_current_user(credentials, now) IN
    /\ req' = [op |-> "delete_task", user_id |-> auth.user_id,
               task_id |-> task_id]
    /\ resp' = IF ~auth.ok THEN auth.error
               ELSE IF task_id \notin DOMAIN tasks THEN TaskNotFound
               ELSE IF AccessDenied(tasks[task_id], auth.user_id) THEN TaskForbidden
               ELSE Response(HTTP_204_NO_CONTENT, "", NoBody)
    /\ UNCHANGED <<users, tasks, issued, now, nextUserId, nextTaskId, pc, local, not_authenticated>>

delete_task(credentials, task_id) ==
    LET auth == get_current_user(credentials, now) IN
    /\ req' = [op |-> "delete_task", user_id |-> auth.user_id,
               task_id |-> task_id]
    /\ IF ~auth.ok
       THEN resp' = auth.error /\ UNCHANGED tasks
       ELSE IF task_id \notin DOMAIN tasks
       THEN resp' = TaskNotFound /\ UNCHANGED tasks
       ELSE IF AccessDenied(tasks[task_id], auth.user_id)
       THEN resp' = TaskForbidden /\ UNCHANGED tasks
       ELSE /\ tasks' = [id \in DOMAIN tasks \ {task_id} |-> tasks[id]]
            /\ resp' = Response(HTTP_204_NO_CONTENT, "", NoBody)
    /\ UNCHANGED <<users, issued, now, nextUserId, nextTaskId, pc, local, not_authenticated>>

\* ------------------------------------------------- the API, one request at a time
Option(S) == {None} \cup {Some(v) : v \in S}

Password1 == Str("password1", 9)
Password2 == Str("password2", 9)
BuyMilk == Str("Buy milk", 8)
CallMom == Str("Call mom", 8)
EmptyTitle == Str("", 0)
LongTitle == Str("long", TitleMaxLength + 1)

GarbageToken == Token("garbage", "bad", "json", NoSub, 0, 0)

\* A request that carries no Authorization header.
NoCredentials == Token("absent", "bad", "json", NoSub, 0, 0)

\* Credentials a client can present: tokens login has issued, and a string
\* that is no token.
Credentials == issued \cup {GarbageToken}

\* Requests of the ownership runs: two tenants, small task contents.
CreateBodies ==
    {TaskCreateBody(t, None, None, u) : t \in {BuyMilk, EmptyTitle}, u \in Option(UserIds)}

UpdateRequests ==
    {TaskUpdateRequest(Some(CallMom), None, None),
     TaskUpdateRequest(None, None, Some(TRUE)),
     TaskUpdateRequest(None, None, None)}

Next ==
    \/ \E e \in Emails : nextUserId <= MaxUsers /\ register(e, Password1)
    \/ \E e \in Emails : Cardinality(issued) < MaxTokens /\ login(e, Password1)
    \/ \E c \in Credentials, f \in {None, Some(FALSE)} : list_tasks(c, 10, 0, f)
    \/ \E c \in Credentials, b \in CreateBodies :
            nextTaskId <= MaxTasks /\ create_task(c, b)
    \/ \E c \in Credentials, t \in TaskIds : get_task(c, t)
    \/ \E c \in Credentials, t \in TaskIds, r \in UpdateRequests : update_task(c, t, r)
    \/ \E c \in Credentials, t \in TaskIds : delete_task(c, t)

Spec == Init /\ [][Next]_vars

\* ------------------------------------------- one tenant, every task content
ContentCreateBodies ==
    {TaskCreateBody(t, d, c, None) :
        t \in {BuyMilk, EmptyTitle}, d \in {None, Some("Milk, eggs")}, c \in {None, Some(TRUE)}}

ContentUpdateRequests ==
    {TaskUpdateRequest(t, d, c) :
        t \in {None, Some(CallMom), Some(EmptyTitle)},
        d \in {None, Some(""), Some("Milk, eggs")}, c \in Option(BOOLEAN)}

NextContent ==
    \/ DOMAIN users = {} /\ register("a@x.com", Password1)
    \/ issued = {} /\ login("a@x.com", Password1)
    \/ \E c \in Credentials, b \in ContentCreateBodies :
            nextTaskId <= MaxTasks /\ create_task(c, b)
    \/ \E c \in Credentials, t \in TaskIds : get_task(c, t)
    \/ \E c \in Credentials, t \in TaskIds, r \in ContentUpdateRequests :
            update_task(c, t, r)

SpecContent == Init /\ [][NextContent]_vars

\* ------------------------------------------------ one tenant, a running clock
ClockUpdateRequests ==
    {TaskUpdateRequest(None, None, Some(TRUE)), TaskUpdateRequest(None, None, None)}

NextClock ==
    \/ DOMAIN users = {} /\ register("a@x.com", Password1)
    \/ issued = {} /\ login("a@x.com", Password1)
    \/ \E c \in Credentials :
            nextTaskId <= MaxTasks /\ create_task(c, TaskCreateBody(BuyMilk, None, None, None))
    \/ \E c \in Credentials, t \in TaskIds, r \in ClockUpdateRequests : update_task(c, t, r)
    \/ \E c \in Credentials, t \in TaskIds : get_task(c, t)
    \/ now + 1 <= MaxTime /\ Tick(1)

SpecClock == Init /\ [][NextClock]_vars

\* ------------------------------------------------ the auth flow over a day
NextAuth ==
    \/ \E e \in Emails \cup MalformedEmails, p \in Passwords \cup ShortPasswords :
            nextUserId <= MaxUsers /\ register(e, p)
    \/ \E e \in Emails, p \in Passwords : Cardinality(issued) < MaxTokens /\ login(e, p)
    \/ \E c \in Credentials : logout(c)
    \/ \E c \in Credentials : get_me(c)
    \/ now + TickHours <= MaxExpiryTime /\ Tick(TickHours)

SpecAuth == Init /\ [][NextAuth]_vars

\* --------------------------------------------- token verification by itself
\* Every shape of credential, including ones only a holder of SECRET_KEY can
\* sign (the tests and the frontend sign tokens with it).
TokenInputs ==
    {Token(f, s, p, sub, 0, e) :
        f \in {"jwt", "garbage"}, s \in {"ok", "bad"}, p \in {"json", "text"},
        sub \in {NoSub, TextSub, IntSub, UuidStr(1)},
        e \in {0, ACCESS_TOKEN_EXPIRE_HOURS}}

NextToken ==
    \/ \E c \in TokenInputs : logout(c)
    \/ now + TickHours <= MaxExpiryTime /\ Tick(TickHours)

SpecToken == Init /\ [][NextToken]_vars

\* ------------------------------------------------- concurrent registrations
\* Handlers run on a thread pool, each with its own session: the existence
\* read and the commit of one register are separate steps, and another
\* request may run between them.
Procs == {1, 2}

register_select(p, email, password) ==
    /\ pc[p] \in {"idle", "done"}
    /\ RegisterRequest(email, password)
    /\ pc' = [pc EXCEPT ![p] = "selected"]
    /\ local' = [local EXCEPT ![p] =
            [op |-> "register", email |-> email, password |-> password,
             existing |-> find_user_by_email(email) /= {}, status |-> 0]]
    /\ UNCHANGED <<users, tasks, issued, now, nextUserId, nextTaskId, req, resp,
                   not_authenticated>>

register_finish(p) ==
    /\ pc[p] = "selected"
    /\ req' = [op |-> "register", email |-> local[p].email, password |-> local[p].password]
    /\ register_commit(local[p].existing, local[p].email, local[p].password)
    /\ pc' = [pc EXCEPT ![p] = "done"]
    /\ local' = [local EXCEPT ![p].status = resp'.status]
    /\ UNCHANGED <<tasks, issued, now, nextTaskId, not_authenticated>>

NextRace ==
    \/ \E p \in Procs, e \in Emails, w \in Passwords :
            nextUserId <= MaxUsers /\ register_select(p, e, w)
    \/ \E p \in Procs : register_finish(p)

SpecRace == Init /\ [][NextRace]_vars

\* --------------------------------------- an update racing with a delete
\* update_task up to and including its ownership check: the row is read into
\* the session; a request that fails before that is answered at once.
update_select(p, credentials, task_id, request) ==
    LET auth == get_current_user(credentials, now)
        early == IF ~auth.ok THEN auth.error
                 ELSE IF request.title /= None /\ ~ValidTitle(request.title[1])
                 THEN Response(HTTP_422_UNPROCESSABLE, "validation error", NoBody)
                 ELSE IF task_id \notin DOMAIN tasks THEN TaskNotFound
                 ELSE IF AccessDenied(tasks[task_id], auth.user_id) THEN TaskForbidden
                 ELSE NoResponse IN
    /\ pc[p] \in {"idle", "done"}
    /\ IF early /= NoResponse
       THEN /\ req' = [op |-> "update_task", user_id |-> auth.user_id,
                       task_id |-> task_id, request |-> request]
            /\ resp' = early
            /\ pc' = [pc EXCEPT ![p] = "done"]
            /\ local' = [local EXCEPT ![p] =
                    [op |-> "update_task", user_id |-> auth.user_id, task_id |-> task_id,
                     request |-> request, read |-> FALSE, status |-> early.status]]
       ELSE /\ pc' = [pc EXCEPT ![p] = "read"]
            /\ local' = [local EXCEPT ![p] =
                    [op |-> "update_task", user_id |-> auth.user_id, task_id |-> task_id,
                     request |-> request, read |-> TRUE, task |-> tasks[task_id],
                     status |-> 0]]
            /\ UNCHANGED <<req, resp>>
    /\ UNCHANGED <<users, tasks, issued, now, nextUserId, nextTaskId, not_authenticated>>

\* The row after the flush: the UPDATE sets the columns whose value differs
\* from the one the session read, and leaves the others as stored.
Flushed(stored, read, request) ==
    LET new == ApplyUpdate(read, request) IN
    [stored EXCEPT
        !.title = IF new.title /= read.title THEN new.title ELSE @,
        !.description = IF new.description /= read.description THEN new.description ELSE @,
        !.completed = IF new.completed /= read.completed THEN new.completed ELSE @]

\* mutant: the session's copy of the row is written back whether or not the
\* row is still there
update_commit_Upsert(p) ==
    LET task_id == local[p].task_id
        task == ApplyUpdate(local[p].task, local[p].request) IN
    /\ pc[p] = "read"
    /\ req' = [op |-> "update_task", user_id |-> local[p].user_id,
               task_id |-> task_id, request |-> local[p].request]
    /\ tasks' = [id \in DOMAIN tasks \cup {task_id} |-> IF id = task_id THEN task ELSE tasks[id]]
    /\ resp' = Response(HTTP_200_OK, "", TaskResponse(task_id, task))
    /\ pc' = [pc EXCEPT ![p] = "done"]
    /\ local' = [local EXCEPT ![p].status = resp'.status]
    /\ UNCHANGED <<users, issued, now, nextUserId, nextTaskId, not_authenticated>>

\* session.add(task); session.commit(); session.refresh(task): when the row
\* has been deleted meanwhile, the UPDATE matches no row (StaleDataError) or,
\* with nothing to flush, the refresh finds no row (InvalidRequestError);
\* neither is handled.
update_commit(p) ==
    LET task_id == local[p].task_id IN
    /\ pc[p] = "read"
    /\ req' = [op |-> "update_task", user_id |-> local[p].user_id,
               task_id |-> task_id, request |-> local[p].request]
    /\ IF task_id \notin DOMAIN tasks
       THEN /\ resp' = Response(HTTP_500_INTERNAL, "Internal Server Error", NoBody)
            /\ UNCHANGED tasks
       ELSE LET task == Flushed(tasks[task_id], local[p].task, local[p].request) IN
            /\ tasks' = [tasks EXCEPT ![task_id] = task]
            /\ resp' = Response(HTTP_200_OK, "", TaskResponse(task_id, task))
    /\ pc' = [pc EXCEPT ![p] = "done"]
    /\ local' = [local EXCEPT ![p].status = resp'.status]
    /\ UNCHANGED <<users, issued, now, nextUserId, nextTaskId, not_authenticated>>

RaceUpdateRequests ==
    {TaskUpdateRequest(None, None, None), TaskUpdateRequest(None, None, Some(TRUE))}

NextUpdateRace ==
    \/ DOMAIN users = {} /\ register("a@x.com", Password1)
    \/ issued = {} /\ login("a@x.com", Password1)
    \/ \E c \in Credentials :
            nextTaskId <= MaxTasks /\ create_task(c, TaskCreateBody(BuyMilk, None, None, None))
    \/ \E p \in Procs, c \in Credentials, t \in TaskIds, r \in RaceUpdateRequests :
            update_select(p, c, t, r)
    \/ \E p \in Procs : update_commit(p)
    \/ \E c \in Credentials, t \in TaskIds : delete_task(c, t)

SpecUpdateRace == Init /\ [][NextUpdateRace]_vars

\* ------------------------------------ a list racing with creates and deletes
\* list_tasks up to and including its count query.  The session runs at the
\* isolation level the database defaults to (the engine sets none), READ
\* COMMITTED on PostgreSQL: each statement sees what is committed when it starts.
list_count(p, credentials, limit, offset, completed) ==
    LET auth == get_current_user(credentials, now)
        early == IF ~auth.ok THEN auth.error
                 ELSE IF ~ListQuery(limit, offset)
                 THEN Response(HTTP_422_UNPROCESSABLE, "validation error", NoBody)
                 ELSE NoResponse IN
    /\ pc[p] \in {"idle", "done"}
    /\ IF early /= NoResponse
       THEN /\ req' = [op |-> "list_tasks", user_id |-> auth.user_id,
                       limit |-> limit, offset |-> offset, completed |-> completed]
            /\ resp' = early
            /\ pc' = [pc EXCEPT ![p] = "done"]
            /\ local' = [local EXCEPT ![p] =
                    [op |-> "list_tasks", user_id |-> auth.user_id, limit |-> limit,
                     offset |-> offset, completed |-> completed, total |-> 0,
                     status |-> early.status, body |-> NoBody]]
       ELSE /\ pc' = [pc EXCEPT ![p] = "counted"]
            /\ local' = [local EXCEPT ![p] =
                    [op |-> "list_tasks", user_id |-> auth.user_id, limit |-> limit,
                     offset |-> offset, completed |-> completed,
                     total |-> Cardinality(Matching(tasks, auth.user_id, completed)),
                     status |-> 0, body |-> NoBody]]
            /\ UNCHANGED <<req, resp>>
    /\ UNCHANGED <<users, tasks, issued, now, nextUserId, nextTaskId, not_authenticated>>

\* The page query and the response: the rows are those in the table now, the
\* total is the one counted before.
list_page(p) ==
    LET l == local[p] IN
    /\ pc[p] = "counted"
    /\ req' = [op |-> "list_tasks", user_id |-> l.user_id,
               limit |-> l.limit, offset |-> l.offset, completed |-> l.completed]
    /\ \E rows \in OrderedByCreatedDesc(tasks, Matching(tasks, l.user_id, l.completed)) :
            resp' = Response(HTTP_200_OK, "",
                [kind |-> "list",
                 tasks |-> [i \in DOMAIN Page(rows, l.limit, l.offset) |->
                                TaskResponse(Page(rows, l.limit, l.offset)[i],
                                             tasks[Page(rows, l.limit, l.offset)[i]])],
                 total |-> l.total, limit |-> l.limit, offset |-> l.offset])
    /\ pc' = [pc EXCEPT ![p] = "done"]
    /\ local' = [local EXCEPT ![p].status = resp'.status, ![p].body = resp'.body]
    /\ UNCHANGED <<users, tasks, issued, now, nextUserId, nextTaskId, not_authenticated>>

NextListRace ==
    \/ DOMAIN users = {} /\ register("a@x.com", Password1)
    \/ issued = {} /\ login("a@x.com", Password1)
    \/ \E c \in issued :
            nextTaskId <= MaxTasks /\ create_task(c, TaskCreateBody(BuyMilk, None, None, None))
    \/ \E c \in issued, t \in TaskIds : delete_task(c, t)
    \/ \E p \in Procs, c \in Credentials, l \in {1, 10}, o \in {0, 1} :
            list_count(p, c, l, o, None)
    \/ \E p \in Procs : list_page(p)

SpecListRace == Init /\ [][NextListRace]_vars

\* ------------------------------------------- a client walking the pages
\* The client asks for offset 0, L, 2L, ... with one limit and one filter
\* until a page reaches the total, and collects the ids it is given.
walk_start(p, credentials, limit, completed) ==
    LET auth == get_current_user(credentials, now) IN
    /\ pc[p] \in {"idle", "done"}
    /\ auth.ok
    /\ ListQuery(limit, 0)
    /\ pc' = [pc EXCEPT ![p] = "walking"]
    /\ local' = [local EXCEPT ![p] =
            [op |-> "walk", user_id |-> auth.user_id, limit |-> limit,
             completed |-> completed, offset |-> 0, seen |-> <<>>]]
    /\ UNCHANGED <<users, tasks, issued, now, nextUserId, nextTaskId, req, resp,
                   not_authenticated>>

walk_page(p) ==
    LET l == local[p] IN
    /\ pc[p] = "walking"
    /\ req' = [op |-> "list_tasks", user_id |-> l.user_id,
               limit |-> l.limit, offset |-> l.offset, completed |-> l.completed]
    /\ \E body \in TaskListResponse(tasks, l.user_id, l.limit, l.offset, l.completed) :
            /\ resp' = Response(HTTP_200_OK, "", body)
            /\ local' = [local EXCEPT
                    ![p].seen = @ \o [i \in DOMAIN body.tasks |-> body.tasks[i].id],
                    ![p].offset = @ + l.limit]
            /\ pc' = [pc EXCEPT ![p] =
                    IF l.offset + l.limit >= body.total THEN "done" ELSE "walking"]
    /\ UNCHANGED <<users, tasks, issued, now, nextUserId, nextTaskId, not_authenticated>>

Walking == \E p \in Procs : pc[p] = "walking"

NextWalk ==
    \/ DOMAIN users = {} /\ register("a@x.com", Password1)
    \/ issued = {} /\ login("a@x.com", Password1)
    \/ \E c \in issued, done \in {None, Some(TRUE)} :
            /\ ~Walking
            /\ nextTaskId <= MaxListTasks
            /\ create_task(c, TaskCreateBody(BuyMilk, None, done, None))
    \/ ~Walking /\ now + 1 <= MaxTime /\ Tick(1)
    \/ \E c \in issued, l \in {1, 2}, f \in {None, Some(TRUE)} : walk_start(1, c, l, f)
    \/ walk_page(1)

SpecWalk == Init /\ [][NextWalk]_vars

\* ------------------------------------------- accounts that come and go
NextLifecycle ==
    \/ \E e \in Emails : nextUserId <= MaxUsers /\ register(e, Password1)
    \/ \E e \in Emails : Cardinality(issued) < MaxTokens /\ login(e, Password1)
    \/ \E u \in UserIds : delete_user(u)
    \/ \E c \in Credentials : get_me(c)
    \/ \E c \in Credentials, b \in CreateBodies :
            nextTaskId <= MaxTasks /\ create_task(c, b)
    \/ \E c \in Credentials, t \in TaskIds :
            update_task(c, t, TaskUpdateRequest(None, None, Some(TRUE)))
    \/ \E c \in Credentials, t \in TaskIds : delete_task(c, t)

SpecLifecycle == Init /\ [][NextLifecycle]_vars

\* ------------------------------------- a session: log in, work, log out
NextSession ==
    \/ DOMAIN users = {} /\ register("a@x.com", Password1)
    \/ Cardinality(issued) < MaxTokens /\ login("a@x.com", Password1)
    \/ \E c \in Credentials : logout(c)
    \/ \E c \in Credentials : get_me(c)
    \/ \E c \in Credentials : list_tasks(c, 10, 0, None)
    \/ \E c \in Credentials :
            nextTaskId <= MaxTasks /\ create_task(c, TaskCreateBody(BuyMilk, None, None, None))
    \/ \E c \in Credentials, t \in TaskIds : get_task(c, t)
    \/ \E c \in Credentials, t \in TaskIds :
            update_task(c, t, TaskUpdateRequest(None, None, Some(TRUE)))
    \/ \E c \in Credentials, t \in TaskIds : delete_task(c, t)
    \/ now + TickHours <= MaxExpiryTime /\ Tick(TickHours)

SpecSession == Init /\ [][NextSession]_vars

\* --------------------------------------------- listing, page by page
\* limit and offset as the query string carries them, in and out of range
Limits == {LimitMin - 1, LimitMin, 2, LimitMax, LimitMax + 1}
Offsets == (OffsetMin - 1) .. (MaxListTasks + 1)

NextList ==
    \/ DOMAIN users = {} /\ register("a@x.com", Password1)
    \/ issued = {} /\ login("a@x.com", Password1)
    \/ \E c \in Credentials, done \in {None, Some(TRUE)} :
            nextTaskId <= MaxListTasks /\ create_task(c, TaskCreateBody(BuyMilk, None, done, None))
    \/ \E c \in issued, l \in Limits, o \in Offsets, f \in Option(BOOLEAN) :
            list_tasks(c, l, o, f)
    \/ now + 1 <= MaxTime /\ Tick(1)

SpecList == Init /\ [][NextList]_vars

\* ------------------------------------------- titles at and past the limits
TitleInputs ==
    {Str("", TitleMinLength - 1), Str("a", TitleMinLength), BuyMilk,
     Str("max", TitleMaxLength), Str("long", TitleMaxLength + 1)}

NextTitles ==
    \/ DOMAIN users = {} /\ register("a@x.com", Password1)
    \/ issued = {} /\ login("a@x.com", Password1)
    \/ \E c \in Credentials, title \in TitleInputs :
            nextTaskId <= MaxTasks /\ create_task(c, TaskCreateBody(title, None, None, None))
    \/ \E c \in Credentials, t \in TaskIds, title \in TitleInputs :
            update_task(c, t, ParseTaskUpdateRequest(
                TaskUpdateBody(Value(title), Omitted, Omitted, Omitted, Omitted)))
    \/ \E c \in Credentials, t \in TaskIds : delete_task(c, t)

SpecTitles == Init /\ [][NextTitles]_vars

\* ------------------------------ updates with fields left out, null or set
NullUpdateBodies ==
    {TaskUpdateBody(t, d, c, Omitted, Omitted) :
        t \in {Omitted, Null},
        d \in {Omitted, Null, Value("2%")},
        c \in {Omitted, Value(TRUE)}}

NextNull ==
    \/ DOMAIN users = {} /\ register("a@x.com", Password1)
    \/ issued = {} /\ login("a@x.com", Password1)
    \/ \E c \in Credentials, d \in {None, Some("Milk, eggs")} :
            nextTaskId <= MaxTasks /\ create_task(c, TaskCreateBody(BuyMilk, d, None, None))
    \/ \E c \in Credentials, t \in TaskIds, b \in NullUpdateBodies :
            update_task(c, t, ParseTaskUpdateRequest(b))
    \/ \E c \in Credentials, t \in TaskIds : get_task(c, t)
    \/ \E c \in Credentials, t \in TaskIds : delete_task(c, t)

SpecNull == Init /\ [][NextNull]_vars

\* ------------------------------- protected routes, with and without a token
ProtectCredentials == Credentials \cup {NoCredentials}

NextProtect ==
    \/ DOMAIN users = {} /\ register("a@x.com", Password1)
    \/ issued = {} /\ login("a@x.com", Password1)
    \/ \E c \in ProtectCredentials : logout(c)
    \/ \E c \in ProtectCredentials : get_me(c)
    \/ \E c \in ProtectCredentials : list_tasks(c, 10, 0, None)
    \/ \E c \in ProtectCredentials :
            nextTaskId <= MaxTasks /\ create_task(c, TaskCreateBody(BuyMilk, None, None, None))
    \/ \E c \in ProtectCredentials, t \in TaskIds : get_task(c, t)
    \/ \E c \in ProtectCredentials, t \in TaskIds :
            update_task(c, t, TaskUpdateRequest(None, None, Some(TRUE)))
    \/ \E c \in ProtectCredentials, t \in TaskIds : delete_task(c, t)

SpecProtect == InitAnyRelease /\ [][NextProtect]_vars

\* ------------------------------ two tenants, a clock, bodies with extras
ImmutableUpdateBodies ==
    {TaskUpdateBody(Value(CallMom), Omitted, Value(TRUE), Value(u), Value(MaxTime + 1)) :
        u \in UserIds}
    \cup {TaskUpdateBody(Omitted, Omitted, Omitted, Value(u), Omitted) : u \in UserIds}

NextImmutable ==
    \/ \E e \in Emails : nextUserId <= MaxUsers /\ register(e, Password1)
    \/ \E e \in Emails :
            /\ \A c \in issued, id \in find_user_by_email(e) : ParseUUID(c.sub) /= id
            /\ login(e, Password1)
    \/ \E c \in issued : logout(c)
    \/ \E c \in issued : list_tasks(c, 10, 0, None)
    \/ \E c \in issued :
            nextTaskId <= MaxTasks /\ create_task(c, TaskCreateBody(BuyMilk, None, None, None))
    \/ \E c \in issued, t \in TaskIds : get_task(c, t)
    \/ \E c \in issued, t \in TaskIds, b \in ImmutableUpdateBodies :
            update_task(c, t, ParseTaskUpdateRequest(b))
    \/ \E c \in issued, t \in TaskIds : delete_task(c, t)
    \/ now + 1 <= MaxTime /\ Tick(1)

SpecImmutable == Init /\ [][NextImmutable]_vars

\* ================================================================ claims
Authenticated(c) == get_current_user(c, now).ok
Caller(c) == get_current_user(c, now).user_id
ValidUpdate(r) == r.title = None \/ ValidTitle(r.title[1])
Foreign(c, t) == Authenticated(c) /\ t \in DOMAIN tasks /\ tasks[t].user_id /= Caller(c)

\* C1: get, update and delete of an existing task by a verified caller who is
\* not its owner never succeed and never yield 404, leave the tasks table as
\* it was, and (the request having passed body validation) yield 403.
C1_ForeignTaskForbidden ==
    [][req'.op \in {"get_task", "update_task", "delete_task"} =>
        \A c \in Credentials :
            LET t == req'.task_id IN
            Foreign(c, t) =>
                /\ get_task(c, t) => resp'.status = HTTP_403_FORBIDDEN /\ tasks' = tasks
                /\ delete_task(c, t) => resp'.status = HTTP_403_FORBIDDEN /\ tasks' = tasks
                /\ req'.op = "update_task" /\ update_task(c, t, req'.request) =>
                    /\ tasks' = tasks
                    /\ resp'.status \notin {HTTP_200_OK, HTTP_204_NO_CONTENT, HTTP_404_NOT_FOUND}
                    /\ ValidUpdate(req'.request) => resp'.status = HTTP_403_FORBIDDEN]_vars

C1_Witness ==
    /\ req.op = "update_task"
    /\ req.request.title = Some(CallMom)
    /\ resp = TaskForbidden
    /\ req.task_id \in DOMAIN tasks
    /\ tasks[req.task_id].user_id /= req.user_id
    /\ tasks[req.task_id].title = BuyMilk

\* C2: for a verified caller and a valid body, get, update and delete answer
\* 404 exactly when no task has the id, whoever owns what, and 403 exactly
\* when the task exists and belongs to another user.
C2_Outcome(c, t) ==
    /\ resp'.status = HTTP_404_NOT_FOUND <=> t \notin DOMAIN tasks
    /\ resp'.status = HTTP_403_FORBIDDEN <=> t \in DOMAIN tasks /\ tasks[t].user_id /= Caller(c)

C2_ExistenceBeforeOwnership ==
    [][req'.op \in {"get_task", "update_task", "delete_task"} =>
        \A c \in Credentials :
            LET t == req'.task_id IN
            Authenticated(c) =>
                /\ get_task(c, t) => C2_Outcome(c, t)
                /\ delete_task(c, t) => C2_Outcome(c, t)
                /\ (/\ req'.op = "update_task"
                    /\ update_task(c, t, req'.request)
                    /\ ValidUpdate(req'.request)) => C2_Outcome(c, t)]_vars

\* a 404 for an id that is in nobody's hands while the other tenant has a task
C2_Witness ==
    /\ req.op = "get_task"
    /\ resp = TaskNotFound
    /\ req.user_id \in DOMAIN users
    /\ req.task_id \notin DOMAIN tasks
    /\ \E t \in DOMAIN tasks : tasks[t].user_id /= req.user_id

\* C3: a task made by create is stored under the identity in the caller's
\* verified token, whatever user_id the request body carries.
C3_CreateUsesTokenIdentity ==
    [][req'.op = "create_task" /\ resp'.status = HTTP_201_CREATED =>
        \A c \in Credentials :
            create_task(c, req'.body) =>
                /\ c \in issued
                /\ DOMAIN tasks' = DOMAIN tasks \cup {nextTaskId}
                /\ nextTaskId \notin DOMAIN tasks
                /\ tasks'[nextTaskId].user_id = ParseUUID(c.sub)
                /\ resp'.body.user_id = ParseUUID(c.sub)]_vars

C3_Witness ==
    /\ req.op = "create_task"
    /\ resp.status = HTTP_201_CREATED
    /\ req.body.user_id /= None
    /\ req.body.user_id /= Some(req.user_id)
    /\ tasks[resp.body.id].user_id = req.user_id

\* C4: list answers with tasks of the caller only, and total counts exactly
\* the caller's tasks that match the filter.
C4_ListScopedToCaller ==
    req.op = "list_tasks" /\ resp.status = HTTP_200_OK =>
        /\ \A i \in DOMAIN resp.body.tasks :
              /\ resp.body.tasks[i].user_id = req.user_id
              /\ resp.body.tasks[i].id \in DOMAIN tasks
              /\ tasks[resp.body.tasks[i].id].user_id = req.user_id
        /\ resp.body.total =
              Cardinality({t \in DOMAIN tasks :
                  /\ tasks[t].user_id = req.user_id
                  /\ (req.completed = None \/ tasks[t].completed = req.completed[1])})

C4_Witness ==
    /\ req.op = "list_tasks"
    /\ resp.status = HTTP_200_OK
    /\ resp.body.total = 1
    /\ Len(resp.body.tasks) = 1
    /\ \E t \in DOMAIN tasks : tasks[t].user_id /= req.user_id

\* C5: after a successful update every field the parsed request leaves None
\* (omitted) keeps its stored value, and every field it carries -- completed
\* false and the empty description included -- is stored as sent.
C5_PartialUpdate ==
    [][req'.op = "update_task" /\ resp'.status = HTTP_200_OK =>
        \A c \in Credentials :
            LET t == req'.task_id
                r == req'.request IN
            update_task(c, t, r) =>
                /\ t \in DOMAIN tasks /\ t \in DOMAIN tasks'
                /\ tasks'[t].title = (IF r.title = None THEN tasks[t].title ELSE r.title[1])
                /\ tasks'[t].description =
                        (IF r.description = None THEN tasks[t].description ELSE r.description)
                /\ tasks'[t].completed =
                        (IF r.completed = None THEN tasks[t].completed ELSE r.completed[1])
                /\ resp'.body = TaskResponse(t, tasks'[t])]_vars

\* title omitted and kept, completed=false and description="" sent and stored
C5_Witness ==
    /\ req.op = "update_task"
    /\ resp.status = HTTP_200_OK
    /\ req.request = TaskUpdateRequest(None, Some(""), Some(FALSE))
    /\ tasks[req.task_id].title = CallMom
    /\ tasks[req.task_id].description = Some("")
    /\ tasks[req.task_id].completed = FALSE

\* C6: a successful update sets updated_at to the time of the update and
\* leaves created_at alone.
C6_UpdatedAtRefreshed ==
    [][req'.op = "update_task" /\ resp'.status = HTTP_200_OK =>
        \A c \in Credentials :
            LET t == req'.task_id IN
            update_task(c, t, req'.request) =>
                /\ tasks'[t].updated_at = now
                /\ tasks'[t].created_at = tasks[t].created_at]_vars

\* C7: two registrations of one email that both read before either commits
\* end with one 201 and one 409, and with exactly one user of that email.
C7_RegisterRaceSafe ==
    (/\ pc[1] = "done" /\ pc[2] = "done"
     /\ local[1].email = local[2].email
     /\ ~local[1].existing /\ ~local[2].existing) =>
        /\ {local[1].status, local[2].status} = {HTTP_201_CREATED, HTTP_409_CONFLICT}
        /\ Cardinality(find_user_by_email(local[1].email)) = 1

\* C8: a valid register request for an email that is already registered is
\* answered 409 whatever its password, and no register request for such an
\* email, valid or not, adds a user or changes the existing one.
C8_DuplicateEmail ==
    [][req'.op = "register" /\ register(req'.email, req'.password)
            /\ find_user_by_email(req'.email) /= {} =>
        /\ users' = users
        /\ nextUserId' = nextUserId
        /\ RegisterRequest(req'.email, req'.password) =>
                resp' = Response(HTTP_409_CONFLICT, "Email already registered", NoBody)]_vars

\* the second registration carries another password than the stored one
C8_Witness ==
    /\ req.op = "register"
    /\ resp.status = HTTP_409_CONFLICT
    /\ \E id \in find_user_by_email(req.email) :
          ~verify_password(req.password, users[id].password_hash)

\* C9: a login with an unknown email and a login with a known email and a
\* password that does not verify get one and the same response, status 401
\* with the same detail and no body, and neither issues a token.
InvalidCredentials == Response(HTTP_401_UNAUTHORIZED, "Invalid email or password", NoBody)

C9_LoginIndistinguishable ==
    [][req'.op = "login" /\ login(req'.email, req'.password) =>
        LET found == find_user_by_email(req'.email)
            unknown == found = {}
            wrong == found /= {} /\
                     \A id \in found : ~verify_password(req'.password, users[id].password_hash) IN
        /\ unknown \/ wrong => resp' = InvalidCredentials /\ issued' = issued
        /\ ~(unknown \/ wrong) => resp'.status = HTTP_200_OK]_vars

\* a known email with the wrong password, while another email is unknown
C9_Witness ==
    /\ req.op = "login"
    /\ resp = InvalidCredentials
    /\ find_user_by_email(req.email) /= {}
    /\ \E e \in Emails : find_user_by_email(e) = {}

\* C10: verification tells the kinds of invalid token apart, signature
\* before expiry: a bad signature gets a 401 mentioning "signature" even when
\* the token is expired or its subject is no identifier, a signed but expired
\* token a 401 mentioning "expired", a signed, unexpired token whose subject
\* is a string that is no UUID the malformed-user-id detail, and a token that
\* is no well-formed JWT (segments, claims object, or a missing or non-string
\* subject) the generic detail; always 401, never another kind's detail.
DetailWords(detail) ==
    CASE detail = "Invalid token" -> {"invalid", "token"}
      [] detail = "Token expired" -> {"token", "expired"}
      [] detail = "Invalid token signature" -> {"invalid", "token", "signature"}
      [] detail = "Invalid token format (malformed user ID)" ->
            {"invalid", "token", "format", "malformed", "user", "id"}
      [] OTHER -> {}

TokenKind(tok, t) ==
    IF tok.fmt /= "jwt" THEN "malformed"
    ELSE IF tok.sig /= "ok" THEN "bad signature"
    ELSE IF tok.payload /= "json" THEN "malformed"
    ELSE IF tok.exp < t THEN "expired"
    ELSE IF tok.sub.kind \in {"missing", "int"} THEN "malformed"
    ELSE IF tok.sub.kind /= "uuid" THEN "subject"
    ELSE "valid"

C11_TokenLifetime ==
    [][/\ req'.op = "login" /\ login(req'.email, req'.password)
          /\ resp'.status = HTTP_200_OK =>
            LET tok == resp'.body.access_token IN
            /\ tok \in issued'
            /\ IsUuidStr(tok.sub)
            /\ find_user_by_email(req'.email) = {ParseUUID(tok.sub)}
            /\ tok.iat = now
            /\ tok.exp = tok.iat + 24
       /\ req'.op = "logout" /\ req'.credentials \in issued
          /\ logout(req'.credentials) =>
            LET tok == req'.credentials IN
            /\ now < tok.iat + 24 =>
                    resp'.status = HTTP_200_OK /\ req'.user_id = tok.sub.val
            /\ now > tok.iat + 24 =>
                    resp' = Response(HTTP_401_UNAUTHORIZED, "Token expired", NoBody)]_vars

\* an issued token presented after its window, and rejected as expired
C11_Witness ==
    /\ req.op = "logout"
    /\ req.credentials \in issued
    /\ now > req.credentials.iat + 24
    /\ resp.detail = "Token expired"

\* C12: GET /api/auth/me with an issued, unexpired token answers 404 "User
\* not found" when the token's user has been deleted, and that user's id and
\* email when the user exists.
C12_GetMeRefetchesUser ==
    [][\A c \in issued : now <= c.exp /\ get_me(c) =>
        LET u == c.sub.val IN
        /\ u \notin DOMAIN users =>
                resp' = Response(HTTP_404_NOT_FOUND, "User not found", NoBody)
        /\ u \in DOMAIN users =>
                /\ resp'.status = HTTP_200_OK
                /\ resp'.body.id = u
                /\ resp'.body.email = users[u].email]_vars

\* a token outlives its user, whose email has been registered again
C12_Witness ==
    /\ req.op = "get_me"
    /\ resp.status = HTTP_404_NOT_FOUND
    /\ req.user_id \notin DOMAIN users
    /\ DOMAIN users /= {}

\* C14: every stored task's user_id is the id of an existing user.
C14_NoOrphanedTasks ==
    \A t \in DOMAIN tasks : tasks[t].user_id \in DOMAIN users

\* a create with the token of a deleted user, while another user has a task
C14_Witness ==
    /\ req.op = "create_task"
    /\ ValidTitle(req.body.title)
    /\ req.user_id \in 1 .. (nextUserId - 1)
    /\ req.user_id \notin DOMAIN users
    /\ tasks /= <<>>

\* C15: deleting user U removes U and every task of U, and leaves every other
\* user and every task of another user present and unchanged.
C15_CascadeIsolation ==
    [][\A u \in UserIds : delete_user(u) =>
        /\ u \notin DOMAIN users'
        /\ \A t \in DOMAIN tasks : tasks[t].user_id = u => t \notin DOMAIN tasks'
        /\ \A v \in DOMAIN users \ {u} : v \in DOMAIN users' /\ users'[v] = users[v]
        /\ \A t \in DOMAIN tasks :
              tasks[t].user_id /= u => t \in DOMAIN tasks' /\ tasks'[t] = tasks[t]
        /\ DOMAIN users' \subseteq DOMAIN users
        /\ DOMAIN tasks' \subseteq DOMAIN tasks]_vars

\* a user has just been deleted, a task is gone and another user's remains
C15_Witness ==
    /\ req.op = "delete_user"
    /\ DOMAIN users /= {}
    /\ \E t \in DOMAIN tasks : tasks[t].user_id /= req.user_id
    /\ \E t \in 1 .. (nextTaskId - 1) : t \notin DOMAIN tasks

\* A protected operation called with credentials c and the arguments of req'.
ProtectedStep(c) ==
    \/ req'.op = "logout" /\ logout(c)
    \/ req'.op = "get_me" /\ get_me(c)
    \/ req'.op = "list_tasks" /\ list_tasks(c, req'.limit, req'.offset, req'.completed)
    \/ req'.op = "create_task" /\ create_task(c, req'.body)
    \/ req'.op = "get_task" /\ get_task(c, req'.task_id)
    \/ req'.op = "update_task" /\ update_task(c, req'.task_id, req'.request)
    \/ req'.op = "delete_task" /\ delete_task(c, req'.task_id)

\* C13: logout needs a valid token (401 otherwise), changes neither users nor
\* tasks nor the tokens in circulation, and a token that has been used to log
\* out, like any issued token, is accepted by every protected operation as
\* long as it has not expired.
C13_LogoutNoRevocation ==
    [][/\ req'.op = "logout" /\ logout(req'.credentials) =>
            /\ users' = users /\ tasks' = tasks /\ issued' = issued
            /\ (req'.credentials \in issued /\ now <= req'.credentials.exp) <=>
                    resp'.status = HTTP_200_OK
            /\ resp'.status \in {HTTP_200_OK, HTTP_401_UNAUTHORIZED}
       /\ \A c \in issued : now <= c.exp /\ ProtectedStep(c) =>
            resp'.status /= HTTP_401_UNAUTHORIZED
       /\ req.op = "logout" /\ resp.status = HTTP_200_OK /\ now <= req.credentials.exp
          /\ ProtectedStep(req.credentials) =>
            resp'.status /= HTTP_401_UNAUTHORIZED /\ req'.user_id = req.user_id]_vars

\* the owner of a task has logged out, and the token has not yet expired
C13_Witness ==
    /\ req.op = "logout"
    /\ resp.status = HTTP_200_OK
    /\ now < req.credentials.exp
    /\ \E t \in DOMAIN tasks : tasks[t].user_id = req.user_id

\* The rows of one user that pass a completed filter, counted from the table.
Filtered(user_id, completed) ==
    {t \in DOMAIN tasks :
        /\ tasks[t].user_id = user_id
        /\ (completed = None \/ tasks[t].completed = completed[1])}

Max(a, b) == IF a >= b THEN a ELSE b

Listed == req.op = "list_tasks" /\ resp.status = HTTP_200_OK

\* C16: with N tasks of the caller matching the filter, limit L in [1,100]
\* and offset O >= 0, list answers 200 with exactly min(L, max(0, N-O)) tasks,
\* total = N whatever L and O, and limit and offset echoed.
C16_Pagination ==
    /\ (req.op = "list_tasks" /\ resp.status /= HTTP_401_UNAUTHORIZED
            /\ req.limit \in 1 .. 100 /\ req.offset >= 0) => resp.status = HTTP_200_OK
    /\ Listed =>
        LET N == Cardinality(Filtered(req.user_id, req.completed)) IN
        /\ req.limit \in 1 .. 100 /\ req.offset >= 0
        /\ Len(resp.body.tasks) = Min(req.limit, Max(0, N - req.offset))
        /\ resp.body.total = N
        /\ resp.body.limit = req.limit
        /\ resp.body.offset = req.offset

\* a middle page: one task of three, after skipping one
C16_Witness ==
    /\ Listed
    /\ req.limit = 1 /\ req.offset = 1
    /\ resp.body.total = 3
    /\ Len(resp.body.tasks) = 1

ListedIds(body) == {body.tasks[i].id : i \in DOMAIN body.tasks}

\* C17: in every state and for every user, what list returns for
\* completed=true and for completed=false is disjoint, together is what it
\* returns without a filter, and the two totals add up to the unfiltered total.
C17_FilterPartition ==
    /\ \A u \in DOMAIN users :
         \A yes \in TaskListResponse(tasks, u, LimitMax, 0, Some(TRUE)),
            no \in TaskListResponse(tasks, u, LimitMax, 0, Some(FALSE)),
            all \in TaskListResponse(tasks, u, LimitMax, 0, None) :
              /\ ListedIds(yes) \cap ListedIds(no) = {}
              /\ ListedIds(yes) \cup ListedIds(no) = ListedIds(all)
              /\ yes.total + no.total = all.total
    /\ Listed /\ req.limit = LimitMax /\ req.offset = 0 =>
         resp.body \in TaskListResponse(tasks, req.user_id, LimitMax, 0, req.completed)

\* the pending tasks have been listed while a completed one exists too
C17_Witness ==
    /\ Listed
    /\ req.completed = Some(FALSE)
    /\ req.limit = LimitMax /\ req.offset = 0
    /\ Len(resp.body.tasks) >= 1
    /\ \E t \in DOMAIN tasks : tasks[t].user_id = req.user_id /\ tasks[t].completed

\* C18: the page is in created_at descending order, and it is the slice
\* [offset, offset+limit) of the caller's filtered tasks in that order: the
\* task at position i of the page has at most offset+i-1 filtered tasks
\* created later than it and at least offset+i created no earlier.
C18_OrderedSlice ==
    Listed =>
        LET page == resp.body.tasks
            rows == Filtered(req.user_id, req.completed) IN
        /\ \A i \in DOMAIN page : page[i].id \in rows /\ page[i] = TaskResponse(page[i].id, tasks[page[i].id])
        /\ \A i, j \in DOMAIN page : i /= j => page[i].id /= page[j].id
        /\ \A i \in 1 .. (Len(page) - 1) : page[i].created_at >= page[i + 1].created_at
        /\ \A i \in DOMAIN page :
              /\ Cardinality({t \in rows : tasks[t].created_at > page[i].created_at})
                    <= req.offset + i - 1
              /\ Cardinality({t \in rows : tasks[t].created_at >= page[i].created_at})
                    >= req.offset + i
        /\ Len(page) = Min(req.limit, Max(0, Cardinality(rows) - req.offset))

\* the second page of two, holding the two older tasks of three
C18_Witness ==
    /\ Listed
    /\ req.offset = 1
    /\ Len(resp.body.tasks) = 2
    /\ resp.body.tasks[1].created_at > resp.body.tasks[2].created_at
    /\ \E t \in DOMAIN tasks : tasks[t].created_at > resp.body.tasks[1].created_at

\* A task id that has been handed out and is no longer in the table.
Gone(t) == t \in 1 .. (nextTaskId - 1) /\ t \notin DOMAIN tasks

\* C19: a delete answered 204 removes the task; from then on the id never
\* comes back, every get, update or delete of it by any authenticated user
\* is answered 404 "Task not found" (so no second delete succeeds), and no
\* list contains it.
C19_DeletedStaysDeleted ==
    [][/\ \A c \in Credentials :
            req'.op = "delete_task" /\ resp'.status = HTTP_204_NO_CONTENT
            /\ delete_task(c, req'.task_id) =>
                req'.task_id \in DOMAIN tasks /\ req'.task_id \notin DOMAIN tasks'
       /\ \A t \in TaskIds : Gone(t) => Gone(t)'
       /\ \A c \in Credentials :
            /\ Authenticated(c)
            /\ req'.op \in {"get_task", "update_task", "delete_task"}
            /\ Gone(req'.task_id)
            /\ \/ req'.op = "get_task" /\ get_task(c, req'.task_id)
               \/ req'.op = "update_task" /\ ValidUpdate(req'.request)
                    /\ update_task(c, req'.task_id, req'.request)
               \/ req'.op = "delete_task" /\ delete_task(c, req'.task_id)
            => resp' = TaskNotFound /\ tasks' = tasks
       /\ \A c \in Credentials :
            req'.op = "list_tasks" /\ resp'.status = HTTP_200_OK
            /\ list_tasks(c, req'.limit, req'.offset, req'.completed) =>
                \A i \in DOMAIN resp'.body.tasks : ~Gone(resp'.body.tasks[i].id)]_vars

\* a second delete of a deleted task, by a user who never owned it
C19_Witness ==
    /\ req.op = "delete_task"
    /\ resp = TaskNotFound
    /\ Gone(req.task_id)
    /\ \E t \in DOMAIN tasks : tasks[t].user_id = req.user_id
    /\ nextUserId > 2

\* C20: a get of the task a create has just returned, by the same caller,
\* answers 200 with the title, description, completed and user_id of the
\* create response, which are the payload's (completed false when omitted)
\* and the caller's id, and with id and both timestamps present.
C20_CreateGetRoundTrip ==
    [][\A c \in Credentials :
        /\ req.op = "create_task" /\ resp.status = HTTP_201_CREATED
        /\ req'.op = "get_task" /\ req'.task_id = resp.body.id
        /\ req'.user_id = req.user_id
        /\ get_task(c, req'.task_id)
        => /\ resp'.status = HTTP_200_OK
           /\ resp'.body.title = resp.body.title
           /\ resp'.body.description = resp.body.description
           /\ resp'.body.completed = resp.body.completed
           /\ resp'.body.user_id = resp.body.user_id
           /\ resp'.body.id = resp.body.id
           /\ {"id", "created_at", "updated_at"} \subseteq DOMAIN resp'.body
           /\ resp'.body.title = req.body.title
           /\ resp'.body.description = req.body.description
           /\ resp'.body.completed =
                (IF req.body.completed = None THEN FALSE ELSE req.body.completed[1])
           /\ resp'.body.user_id = req.user_id]_vars

\* the newest task, created completed and with a description, has been fetched
C20_Witness ==
    /\ req.op = "get_task"
    /\ resp.status = HTTP_200_OK
    /\ resp.body.id = nextTaskId - 1
    /\ resp.body.completed
    /\ resp.body.description = Some("Milk, eggs")
    /\ resp.body.updated_at = resp.body.created_at

\* C24: every protected operation called without a bearer token, or with a
\* token that fails verification, is answered 401 and leaves users and tasks
\* unchanged.
C24_ProtectedNeeds401 ==
    [][\A c \in ProtectCredentials :
        (c \notin issued \/ now > c.exp) /\ ProtectedStep(c) =>
            /\ resp'.status = HTTP_401_UNAUTHORIZED
            /\ users' = users
            /\ tasks' = tasks]_vars

\* C21: as long as a task exists, no step changes its user_id or its
\* created_at, its id is the one it was created under (ids are handed out
\* once), and every response that shows the task shows these three values.
C21_TaskIdentityImmutable ==
    [][/\ \A t \in DOMAIN tasks \cap DOMAIN tasks' :
            /\ tasks'[t].user_id = tasks[t].user_id
            /\ tasks'[t].created_at = tasks[t].created_at
       /\ \A t \in DOMAIN tasks' \ DOMAIN tasks : t = nextTaskId /\ nextTaskId' > t
       /\ req'.op \in {"get_task", "update_task"} /\ resp'.status = HTTP_200_OK
          /\ req'.task_id \in DOMAIN tasks =>
            /\ resp'.body.id = req'.task_id
            /\ resp'.body.user_id = tasks[req'.task_id].user_id
            /\ resp'.body.created_at = tasks[req'.task_id].created_at]_vars

\* an update that carried another user_id and created_at has succeeded on a
\* task created earlier, with two users registered
C21_Witness ==
    /\ req.op = "update_task"
    /\ resp.status = HTTP_200_OK
    /\ req.request.title = Some(CallMom)
    /\ now > resp.body.created_at
    /\ Cardinality(DOMAIN users) = 2

TitleSent(r) ==
    IF r.op = "create_task" THEN Some(r.body.title)
    ELSE IF r.op = "update_task" THEN r.request.title
    ELSE None

\* C23: every stored title has between 1 and 200 characters; a create or
\* update by an authenticated caller with an empty title or one longer than
\* 200 characters is answered 422 and leaves the tasks table unchanged.
C23_TitleLength ==
    [][/\ \A t \in DOMAIN tasks' : tasks'[t].title.len \in 1 .. 200
       /\ \A c \in Credentials :
            /\ Authenticated(c)
            /\ TitleSent(req') /= None
            /\ TitleSent(req')[1].len = 0 \/ TitleSent(req')[1].len > 200
            /\ ProtectedStep(c)
            => /\ resp'.status = HTTP_422_UNPROCESSABLE
               /\ tasks' = tasks
               /\ nextTaskId' = nextTaskId]_vars

\* an update of an existing own task to a 201-character title was refused
\* while a 200-character title is stored
C23_Witness ==
    /\ req.op = "update_task"
    /\ req.user_id /= 0
    /\ req.task_id \in DOMAIN tasks
    /\ req.request.title = Some(Str("long", 201))
    /\ resp.status = HTTP_422_UNPROCESSABLE
    /\ \E t \in DOMAIN tasks : tasks[t].title.len = 200

\* The field names of a response body and of the user object nested in it.
BodyFields(body) ==
    DOMAIN body \cup (IF "user" \in DOMAIN body THEN DOMAIN body.user ELSE {})

\* C25: the password_hash stored by register is never the plaintext that was
\* sent, no stored hash equals any plaintext password, and no response of
\* register, login or me carries a password or password_hash field.
C25_PasswordNeverExposed ==
    [][/\ req'.op = "register" /\ resp'.status = HTTP_201_CREATED =>
            users'[resp'.body.id].password_hash /= req'.password
       /\ \A u \in DOMAIN users', p \in Passwords \cup ShortPasswords :
            users'[u].password_hash /= p
       /\ req'.op \in {"register", "login", "get_me"} =>
            BodyFields(resp'.body) \cap {"password", "password_hash"} = {}]_vars

\* register, login and me have each answered with a user in the body
C25_Witness ==
    /\ req.op = "get_me"
    /\ resp.status = HTTP_200_OK
    /\ resp.body.email \in Emails
    /\ \E u \in DOMAIN users : users[u].password_hash.digest = Password1.text
    /\ issued /= {}

TaskOps == {"create_task", "update_task", "delete_task", "list_tasks", "get_task"}

\* A step is a task operation performed with the identity of a user other than a.
ByAnother(a) == req'.op \in TaskOps /\ req'.user_id /= 0 /\ req'.user_id /= a

\* Every list of user a answers the same before and after the step.
SameLists(a) ==
    \A f \in Option(BOOLEAN), l \in {1, LimitMax}, o \in {0, 1} :
        TaskListResponse(tasks', a, l, o, f) = TaskListResponse(tasks, a, l, o, f)

\* C26 as stated: no task operation performed with another user's identity
\* changes what any list or any get by user a answers.
C26_NonInterference ==
    [][\A a \in DOMAIN users :
        ByAnother(a) =>
            /\ SameLists(a)
            /\ \A t \in TaskIds :
                    GetTaskResponse(tasks', a, t) = GetTaskResponse(tasks, a, t)]_vars

\* C26 amended: no task operation performed with another user's identity
\* changes what any list by user a answers or what a get by a of a task a
\* owns answers; a get by a of any other id is never answered 200, and its
\* answer changes only between 404 and 403.
C26_NonInterferenceOwnTasks ==
    [][\A a \in DOMAIN users :
        ByAnother(a) =>
            /\ SameLists(a)
            /\ \A t \in TaskIds :
                    \/ GetTaskResponse(tasks', a, t) = GetTaskResponse(tasks, a, t)
                    \/ {GetTaskResponse(tasks, a, t), GetTaskResponse(tasks', a, t)}
                            = {TaskNotFound, TaskForbidden}]_vars

\* another user has just changed a task of their own while user 1 owns one
C26_Witness ==
    /\ req.op = "update_task"
    /\ resp.status = HTTP_200_OK
    /\ req.user_id = 2
    /\ \E t \in DOMAIN tasks : tasks[t].user_id = 1
    /\ tasks[req.task_id].completed

\* A body none of whose three declared fields carries a value.
NothingSent(b) == b.title.val = None /\ b.description.val = None /\ b.completed.val = None

\* C27: no step turns a non-null description of an existing task into null,
\* and an update by the owner whose title, description and completed are each
\* null or omitted is answered 200 and leaves the three fields as they were.
C27_UpdateCannotClear ==
    [][/\ \A t \in DOMAIN tasks \cap DOMAIN tasks' :
            tasks[t].description /= None => tasks'[t].description /= None
       /\ \A c \in Credentials, b \in NullUpdateBodies :
            /\ NothingSent(b)
            /\ req'.op = "update_task"
            /\ req'.task_id \in DOMAIN tasks
            /\ Authenticated(c)
            /\ ~Foreign(c, req'.task_id)
            /\ update_task(c, req'.task_id, ParseTaskUpdateRequest(b))
            => /\ resp'.status = HTTP_200_OK
               /\ tasks'[req'.task_id].title = tasks[req'.task_id].title
               /\ tasks'[req'.task_id].description = tasks[req'.task_id].description
               /\ tasks'[req'.task_id].completed = tasks[req'.task_id].completed
               /\ resp'.body.description = tasks[req'.task_id].description]_vars

\* an update with nothing but nulls has been answered 200 on a completed task
\* that has a description
C27_Witness ==
    /\ req.op = "update_task"
    /\ req.request = TaskUpdateRequest(None, None, None)
    /\ resp.status = HTTP_200_OK
    /\ resp.body.description /= None
    /\ resp.body.completed

\* C28: when an update has read a task and the task has been deleted by the
\* time the update commits, the commit does not bring the task back and the
\* update is not answered with a success.
C28_NoResurrection ==
    [][\A p \in Procs :
        /\ pc[p] = "read"
        /\ pc'[p] = "done"
        /\ local[p].task_id \notin DOMAIN tasks
        => /\ local[p].task_id \notin DOMAIN tasks'
           /\ resp'.status >= 400
           /\ local'[p].status = resp'.status]_vars

\* an update that had read its task finished after the task was deleted
C28_Witness ==
    \E p \in Procs :
        /\ pc[p] = "done"
        /\ local[p].op = "update_task"
        /\ local[p].read
        /\ local[p].request.completed = Some(TRUE)
        /\ Gone(local[p].task_id)
        /\ local[p].status = HTTP_500_INTERNAL

\* C29: a list request that other requests' creates and deletes overtook
\* between its count query and its page query still answers with
\* len(tasks) <= total and len(tasks) = min(limit, max(0, total - offset)).
C29_ListSameView ==
    \A p \in Procs :
        (pc[p] = "done" /\ local[p].op = "list_tasks" /\ local[p].status = HTTP_200_OK) =>
            /\ Len(local[p].body.tasks) <= local[p].body.total
            /\ Len(local[p].body.tasks)
                    = Min(local[p].limit, Max(0, local[p].body.total - local[p].offset))

\* C30: with the tasks table unchanged during the walk, the pages at offset
\* 0, L, 2L, ... together hold every matching task of the user exactly once.
C30_WalkSeesEachOnce ==
    [][\A p \in Procs :
        (pc[p] = "walking" /\ pc'[p] = "done") =>
            /\ {local'[p].seen[i] : i \in DOMAIN local'[p].seen}
                    = Filtered(local[p].user_id, local[p].completed)
            /\ \A i, j \in DOMAIN local'[p].seen :
                    i /= j => local'[p].seen[i] /= local'[p].seen[j]]_vars

====
